---- MODULE Spec2Model ----
(***************************************************************************)
(* State-machine model of fuzz.py, the randomized property-testing harness *)
(* for makeChunks, days_between, dumpContentIntoFile, Average and Median.  *)
(*                                                                         *)
(* The five target functions are opaque collaborators: the model gives     *)
(* each a small family of behaviours ("modes") covering a normal return    *)
(* that satisfies the oracle, normal returns that violate it, and a raised *)
(* Exception.  Raised faults are instances of Exception (the class the     *)
(* handlers of fuzz.py catch).  Targets do not mutate their arguments.     *)
(*                                                                         *)
(* Python values that end up in a Finding's payload carry a type tag `ty`  *)
(* so that values of different Python types can be compared.               *)
(***************************************************************************)
EXTENDS Integers, Sequences, FiniteSets, TLC

VARIABLES
    caller,      \* "direct": a fuzz_* function called on its own; "main": main()
    pc,          \* control point: "main_loop", "call", "loop", "returned", "done", "raised"
    fz,          \* index into fuzzers of the campaign being run
    iterations,  \* the `iterations` parameter of the running fuzz_* function
    i,           \* number of loop bodies of the running campaign executed so far
    issues,      \* the running campaign's `issues` list
    trial,       \* locals of the latest loop body: generated input and target outcome
    inputs,      \* the inputs generated so far by the running campaign, in order
    temp_dir,    \* name bound by `with tempfile.TemporaryDirectory() as temp_dir`
    dirs,        \* directories that exist on the filesystem
    disk,        \* files that exist on the filesystem: path -> size
    all_issues,  \* main(): the run-level list
    log,         \* records emitted through `logger`
    campaigns,   \* the lists returned by the fuzz_* calls so far, in call order
    exit_status, \* process exit status, -1 while running
    seed,        \* FUZZ_SEED
    rng,         \* state of the shared `random` source
    behaviour,   \* main runs: the (deterministic) mode of each target
    run,         \* which execution of the process this is (1 or 2)
    prev         \* all_issues at the end of the previous execution

vars == <<caller, pc, fz, iterations, i, issues, trial, inputs, temp_dir, dirs, disk,
          all_issues, log, campaigns, exit_status, seed, rng,
          behaviour, run, prev>>

(***************************************************************************)
(* Bounds of the model.                                                    *)
(***************************************************************************)
MaxSeed == 47            \* direct calls: FUZZ_SEED in 0..MaxSeed or the default
MainMaxSeed == 1         \* main(): FUZZ_SEED in 0..MainMaxSeed or the default
MaxIterations == 2       \* direct calls pass iterations in 0..MaxIterations
MainIterations == 2      \* stands for the default 200 (50 for the dump campaign)
MaxListLen == 2          \* stands for 40: longest chunk input
MaxContentLen == 2       \* stands for 2048: longest text payload
MaxPathId == 2           \* stands for 999999: largest number in a dump file name
MaxNumLen == 2           \* stands for 20: longest numeric-noise payload
MaxDelta == 3            \* stands for 1000: largest day offset of the end timestamp

DefaultSeed == 1337

fuzzers == <<"makeChunks", "days_between", "dumpContentIntoFile", "Average", "Median">>

TempNames == {"/tmp/tmpA", "/tmp/tmpB"}

(***************************************************************************)
(* Python values.                                                          *)
(***************************************************************************)
PyInt(n)   == [ty |-> "int", v |-> n]
PyFloat(q) == [ty |-> "float", v |-> q]      \* the finite float q/4
PyNaN      == [ty |-> "float", v |-> 0, nan |-> TRUE]
PyStr(s)   == [ty |-> "str", v |-> s]
PyText(c)  == [ty |-> "str", cp |-> c]      \* a str given by its code points
PyNone     == [ty |-> "NoneType", v |-> 0]
PyList(s)  == [ty |-> "list", v |-> s]

\* isinstance(x, float) and math.isnan(x)
IsFloatNaN(x) == x.ty = "float" /\ "nan" \in DOMAIN x

\* Python ==, on tagged values (NaN equals nothing)
PyEq(a, b) == a.ty = b.ty /\ DOMAIN a = DOMAIN b /\ ~IsFloatNaN(a) /\ a = b

\* bool(x) of a list
Truthy(x) == x.v # <<>>

Max(a, b) == IF a >= b THEN a ELSE b
Min(a, b) == IF a <= b THEN a ELSE b

(***************************************************************************)
(* The shared random source: a deterministic generator whose whole state   *)
(* is set by random.seed and advanced by every draw.                       *)
(***************************************************************************)
random_seed(s) == (s * 7919 + 104729) % 65521

Adv(s) == (s * 17364 + 1) % 65521

RECURSIVE AdvN(_, _)
AdvN(s, n) == IF n = 0 THEN s ELSE AdvN(Adv(s), n - 1)

\* random.randint(lo, hi), read off the state reached by the draw
randint(s, lo, hi) == lo + (s % (hi - lo + 1))

\* random.choice(seq)
choice(s, seq) == seq[1 + (s % Len(seq))]

\* random.random(), in quarters: one of 0, 1/4, 2/4, 3/4
random_random(s) == s % 4

(***************************************************************************)
(* datetime: naive timestamps [year, month, day, hour, minute], the        *)
(* proleptic Gregorian day number behind `start_date + dt.timedelta(days)` *)
(* and datetime.isoformat().                                               *)
(***************************************************************************)
toordinal(d) ==
    LET y   == IF d.month <= 2 THEN d.year - 1 ELSE d.year
        era == y \div 400
        yoe == y - era * 400
        mp  == IF d.month > 2 THEN d.month - 3 ELSE d.month + 9
        doy == (153 * mp + 2) \div 5 + d.day - 1
        doe == yoe * 365 + yoe \div 4 - yoe \div 100 + doy
    IN  era * 146097 + doe

fromordinal(n, hour, minute) ==
    LET era == n \div 146097
        doe == n - era * 146097
        yoe == (doe - doe \div 1460 + doe \div 36524 - doe \div 146096) \div 365
        doy == doe - (365 * yoe + yoe \div 4 - yoe \div 100)
        mp  == (5 * doy + 2) \div 153
        m   == IF mp < 10 THEN mp + 3 ELSE mp - 9
    IN  [year   |-> yoe + era * 400 + (IF m <= 2 THEN 1 ELSE 0),
         month  |-> m,
         day    |-> doy - (153 * mp + 2) \div 5 + 1,
         hour   |-> hour,
         minute |-> minute]

\* start_date + dt.timedelta(days=delta_days)
add_days(d, delta_days) == fromordinal(toordinal(d) + delta_days, d.hour, d.minute)

Pad2(n) == IF n < 10 THEN "0" \o ToString(n) ELSE ToString(n)

isoformat(d) ==
    ToString(d.year) \o "-" \o Pad2(d.month) \o "-" \o Pad2(d.day) \o "T"
        \o Pad2(d.hour) \o ":" \o Pad2(d.minute) \o ":00"

(***************************************************************************)
(* Input generators.  Each takes the state of the random source and gives  *)
(* the generated input together with the state the source is left in; the *)
(* draws are made in the order the code makes them.                        *)
(***************************************************************************)
gen_chunk_input(s) ==
    LET s1       == Adv(s)
        list_len == randint(s1, 0, MaxListLen)
        data     == [j \in 1..list_len |-> randint(AdvN(s1, j), -1000, 1000)]
        s2       == Adv(AdvN(s1, list_len))
        positive == randint(s2, 1, Max(1, list_len))
        s3       == Adv(s2)
    IN  [data |-> data, size |-> choice(s3, <<0, -1, positive>>), rng |-> s3]

gen_date_pair(s) ==
    LET s1 == Adv(s)
        s2 == Adv(s1)
        s3 == Adv(s2)
        s4 == Adv(s3)
        s5 == Adv(s4)
        s6 == Adv(s5)
        start_date == [year   |-> randint(s1, 1990, 2030),
                       month  |-> randint(s2, 1, 12),
                       day    |-> randint(s3, 1, 28),
                       hour   |-> randint(s4, 0, 23),
                       minute |-> randint(s5, 0, 59)]
    IN  [start_date |-> start_date,
         end_date   |-> add_days(start_date, randint(s6, -MaxDelta, MaxDelta)),
         rng        |-> s6]

gen_text_payload(s, dir) ==
    LET s1 == Adv(s)
        n  == randint(s1, 0, MaxContentLen)
        s2 == Adv(AdvN(s1, n))
    IN  [content   |-> [j \in 1..n |-> randint(AdvN(s1, j), 32, 126)],
         file_path |-> [parent |-> dir,
                        name   |-> "fuzz-" \o ToString(randint(s2, 0, MaxPathId)) \o ".txt"],
         rng       |-> s2]

\* str(file_path)
path_str(p) == p.parent \o "/" \o p.name

generate_numeric_list(s) ==
    LET s1 == Adv(s)
        s2 == Adv(s1)
        s3 == Adv(s2)
        s4 == Adv(s3)
        options == <<PyInt(randint(s1, -1000, 1000)),
                     PyFloat(random_random(s2) * randint(s3, -10, 10)),
                     PyStr(""),
                     PyNone,
                     PyStr("noise")>>
        n == randint(s4, 0, MaxNumLen)
    IN  [payload |-> [j \in 1..n |-> choice(AdvN(s4, j), options)],
         rng     |-> AdvN(s4, n)]

(***************************************************************************)
(* The target functions.  A call ends [kind |-> "return", value |-> v] or  *)
(* [kind |-> "raise", exc |-> e]; `mode` selects the behaviour.            *)
(***************************************************************************)
Returns(v) == [kind |-> "return", value |-> v]
Raises(type, msg) == [kind |-> "raise", exc |-> [type |-> type, msg |-> msg]]

\* repr(error)
repr(e) == e.type \o "('" \o e.msg \o "')"

ChunkModes == {"ok", "whole", "lossy", "raise", "flaky"}
DaysModes  == {"abs", "signed", "raise"}
DumpModes  == {"ok", "misreport", "nowrite", "raise", "write_raise"}
StatModes  == {"ok", "nan", "strict", "raise"}

TargetModes(name) ==
    CASE name = "makeChunks"          -> ChunkModes
      [] name = "days_between"        -> DaysModes
      [] name = "dumpContentIntoFile" -> DumpModes
      [] OTHER                        -> StatModes

\* data cut into consecutive pieces of `size` elements, size > 0
chunks_of(data, size) ==
    [k \in 1..((Len(data) + size - 1) \div size) |->
        SubSeq(data, (k - 1) * size + 1, Min(k * size, Len(data)))]

makeChunks(mode, data, size) ==
    CASE mode = "ok"    -> Returns(IF size <= 0 THEN <<>> ELSE chunks_of(data, size))
      [] mode = "whole" -> Returns(<<data>>)
      [] mode = "lossy" -> Returns(IF size <= 0 THEN <<>>
                                   ELSE chunks_of(SubSeq(data, 1, Len(data) - 1), size))
      [] mode = "flaky" -> IF size = 0 THEN Raises("ValueError", "range() arg 3 must not be zero")
                           ELSE Returns(IF size < 0 THEN <<>> ELSE chunks_of(data, size))
      [] OTHER          -> Raises("TypeError", "bad chunk request")

days_between(mode, d1, d2) ==
    LET delta == toordinal(d2) - toordinal(d1)
    IN  CASE mode = "abs"    -> Returns(IF delta < 0 THEN -delta ELSE delta)
          [] mode = "signed" -> Returns(delta)
          [] OTHER           -> Raises("TypeError", "unsupported operand")

\* the file system after `n` bytes were written to the file at path string ps
written(disk_, ps, n) == [q \in DOMAIN disk_ \cup {ps} |-> IF q = ps THEN n ELSE disk_[q]]

\* dumpContentIntoFile also says what the call left on the file system
dumpContentIntoFile(mode, content, ps, disk_) ==
    CASE mode = "ok"        -> Returns(Len(content)) @@ [disk |-> written(disk_, ps, Len(content))]
      [] mode = "misreport" -> Returns(Len(content) + 1) @@ [disk |-> written(disk_, ps, Len(content))]
      [] mode = "nowrite"   -> Returns(Len(content)) @@ [disk |-> disk_]
      [] mode = "write_raise" -> Raises("OSError", "No space left on device")
                                    @@ [disk |-> written(disk_, ps, 0)]
      [] OTHER              -> Raises("OSError", "Input/output error") @@ [disk |-> disk_]

IsNumber(x) == x.ty \in {"int", "float"}

\* Average and Median
statistic(mode, payload) ==
    CASE mode = "ok"     -> Returns(IF payload = <<>> THEN PyNaN ELSE PyFloat(Len(payload)))
      [] mode = "nan"    -> Returns(IF \A j \in 1..Len(payload) : IsNumber(payload[j]) /\ payload # <<>>
                                    THEN PyInt(0) ELSE PyNaN)
      [] mode = "strict" -> IF \A j \in 1..Len(payload) : IsNumber(payload[j])
                            THEN Returns(IF payload = <<>> THEN PyNone ELSE PyFloat(0))
                            ELSE Raises("TypeError", "unsupported operand type(s)")
      [] OTHER           -> Raises("ZeroDivisionError", "division by zero")

(***************************************************************************)
(* Issue Recorder.                                                         *)
(***************************************************************************)
NoError == [type |-> "NoneType"]

record_issue_drop_error(issues_, function_name, detail, payload, error) ==
    Append(issues_, [function |-> function_name, detail |-> detail, payload |-> payload])

record_issue(issues_, function_name, detail, payload, error) ==
    LET issue == [function |-> function_name, detail |-> detail, payload |-> payload]
    IN  Append(issues_, IF error # NoError THEN issue @@ [error |-> repr(error)] ELSE issue)

(***************************************************************************)
(* The loop bodies: what one trial does to the campaign's list.            *)
(***************************************************************************)
RECURSIVE flatten(_)
flatten(chunks) == IF chunks = <<>> THEN <<>> ELSE Head(chunks) \o flatten(Tail(chunks))

make_chunks_check_swapped(issues_, data, size, chunks) ==
    IF size > 0 /\ chunks # <<>>
    THEN record_issue(issues_, "makeChunks", "Expected empty result when chunk size is non-positive",
             [size |-> PyInt(size), len |-> PyInt(Len(data)), result_len |-> PyInt(Len(chunks))], NoError)
    ELSE issues_

make_chunks_check(issues_, data, size, chunks) ==
    LET flattened == flatten(chunks)
        first == IF size <= 0 /\ chunks # <<>>
                 THEN record_issue(issues_, "makeChunks",
                          "Expected empty result when chunk size is non-positive",
                          [size |-> PyInt(size), len |-> PyInt(Len(data)),
                           result_len |-> PyInt(Len(chunks))], NoError)
                 ELSE issues_
    IN  IF size > 0 /\ flattened # data
        THEN record_issue(first, "makeChunks", "Chunk reconstruction mismatch",
                 [size |-> PyInt(size), original_len |-> PyInt(Len(data)),
                  flattened_len |-> PyInt(Len(flattened))], NoError)
        ELSE first

make_chunks_except(issues_, data, size, exc) ==
    record_issue(issues_, "makeChunks", "Exception during chunking",
        [size |-> PyInt(size), len |-> PyInt(Len(data))], exc)

days_between_check_on_input(issues_, start_date, end_date, result) ==
    IF toordinal(end_date) < toordinal(start_date)
    THEN record_issue(issues_, "days_between", "Negative delta returned",
             [start |-> PyStr(isoformat(start_date)), end |-> PyStr(isoformat(end_date)),
              result |-> PyInt(result)], NoError)
    ELSE issues_

days_between_check(issues_, start_date, end_date, result) ==
    IF result < 0
    THEN record_issue(issues_, "days_between", "Negative delta returned",
             [start |-> PyStr(isoformat(start_date)), end |-> PyStr(isoformat(end_date)),
              result |-> PyInt(result)], NoError)
    ELSE issues_

days_between_except(issues_, start_date, end_date, exc) ==
    record_issue(issues_, "days_between", "Exception during computation",
        [start |-> PyStr(isoformat(start_date)), end |-> PyStr(isoformat(end_date))], exc)

dump_content_except_no_len(issues_, content, file_path, exc) ==
    record_issue(issues_, "dumpContentIntoFile", "Exception during write",
        [path |-> PyStr(path_str(file_path))], exc)

dump_content_except(issues_, content, file_path, exc) ==
    record_issue(issues_, "dumpContentIntoFile", "Exception during write",
        [path |-> PyStr(path_str(file_path)), len |-> PyInt(Len(content))], exc)

\* after the target returned `written_size`: file_path.stat() and the comparison
dump_content_check(issues_, content, file_path, written_size, disk_) ==
    LET ps == path_str(file_path)
    IN  IF ps \notin DOMAIN disk_
        THEN dump_content_except(issues_, content, file_path,
                 [type |-> "FileNotFoundError", msg |-> "No such file or directory"])
        ELSE IF written_size # disk_[ps]
             THEN record_issue(issues_, "dumpContentIntoFile", "Reported size mismatch",
                      [reported |-> PyInt(written_size), actual |-> PyInt(disk_[ps]),
                       path |-> PyStr(ps)], NoError)
             ELSE issues_

nan_check_any_payload(issues_, name, payload, result) ==
    IF IsFloatNaN(result)
    THEN record_issue(issues_, name, name \o " returned NaN for payload with data",
             PyList(payload), NoError)
    ELSE issues_

\* the oracle of fuzz_average and fuzz_median
nan_check(issues_, name, payload, result) ==
    IF IsFloatNaN(result) /\ Truthy(PyList(payload))
    THEN record_issue(issues_, name, name \o " returned NaN for payload with data",
             PyList(payload), NoError)
    ELSE issues_

stat_except(issues_, name, payload, exc) ==
    record_issue(issues_, name,
        "Exception during " \o (IF name = "Average" THEN "average" ELSE "median"),
        PyList(payload), exc)

(***************************************************************************)
(* tempfile.TemporaryDirectory: the files under directory d, and what its  *)
(* cleanup leaves of the file system [dirs, disk].                         *)
(***************************************************************************)
Under(ps, d) == Len(ps) > Len(d) /\ SubSeq(ps, 1, Len(d) + 1) = d \o "/"

cleanup_leaves_tree(fs, d) == fs

cleanup(fs, d) ==
    [dirs |-> fs.dirs \ {d},
     disk |-> [q \in {x \in DOMAIN fs.disk : ~Under(x, d)} |-> fs.disk[q]]]

(***************************************************************************)
(* logging: a record keeps the level, the format string and its arguments. *)
(***************************************************************************)
LogRecord(level, msg, args) == [level |-> level, msg |-> msg, args |-> args]

\* all_issues.extend(issues)
extend_overwrites(all_, issues_) == issues_

extend(all_, issues_) == all_ \o issues_

(***************************************************************************)
(* Initial states.                                                         *)
(***************************************************************************)
NoTrial == [fn |-> "none"]

Name == fuzzers[fz]

Names == {fuzzers[k] : k \in 1..Len(fuzzers)}

Behaviours ==
    {[n \in Names |-> CASE n = "makeChunks"          -> c
                        [] n = "days_between"        -> d
                        [] n = "dumpContentIntoFile" -> w
                        [] n = "Average"             -> a
                        [] OTHER                     -> m] :
        c \in ChunkModes, d \in DaysModes, w \in DumpModes, a \in StatModes, m \in StatModes}

\* what every process start sets, whoever calls
Fresh ==
    /\ i = 0
    /\ issues = <<>>
    /\ trial = NoTrial
    /\ inputs = <<>>
    /\ temp_dir = ""
    /\ dirs = {}
    /\ disk = <<>>
    /\ all_issues = <<>>
    /\ log = <<>>
    /\ campaigns = <<>>
    /\ exit_status = -1
    /\ rng = random_seed(seed)
    /\ run = 1
    /\ prev = <<>>

\* one fuzz_* function called on its own, right after import
Init ==
    /\ caller = "direct"
    /\ seed \in {DefaultSeed} \cup 0..MaxSeed
    /\ fz \in 1..Len(fuzzers)
    /\ iterations \in 0..MaxIterations
    /\ pc = "call"
    /\ behaviour = <<>>
    /\ Fresh

\* the script run as a process: main() about to start
InitMain ==
    /\ caller = "main"
    /\ seed \in {DefaultSeed} \cup 0..MainMaxSeed
    /\ fz = 0
    /\ iterations = 0
    /\ pc = "main_loop"
    /\ behaviour \in Behaviours
    /\ Fresh

(***************************************************************************)
(* main().                                                                 *)
(***************************************************************************)
main_start ==
    /\ caller = "main"
    /\ pc = "main_loop"
    /\ fz < Len(fuzzers)
    /\ fz' = fz + 1
    /\ log' = Append(log, LogRecord("INFO", "Starting fuzzer for %s", <<fuzzers[fz + 1]>>))
    /\ iterations' = MainIterations
    /\ pc' = "call"
    /\ UNCHANGED <<caller, i, issues, trial, inputs, temp_dir, dirs, disk, all_issues,
                   campaigns, exit_status, seed, rng, behaviour, run, prev>>

main_collect ==
    /\ caller = "main"
    /\ pc = "returned"
    /\ IF issues # <<>>
       THEN /\ log' = Append(log, LogRecord("WARNING",
                          "Found %s potential issues while fuzzing %s", <<Len(issues), Name>>))
            /\ all_issues' = extend(all_issues, issues)
       ELSE /\ log' = Append(log, LogRecord("INFO", "No issues detected for %s", <<Name>>))
            /\ all_issues' = all_issues
    /\ pc' = "main_loop"
    /\ UNCHANGED <<caller, fz, iterations, i, issues, trial, inputs, temp_dir, dirs, disk,
                   campaigns, exit_status, seed, rng, behaviour, run, prev>>

main_summary ==
    /\ caller = "main"
    /\ pc = "main_loop"
    /\ fz = Len(fuzzers)
    /\ IF all_issues # <<>>
       THEN log' = Append(log, LogRecord("INFO", "Fuzzing completed with %s total findings.",
                                         <<Len(all_issues)>>))
                   \o [k \in 1..Len(all_issues) |-> LogRecord("INFO", "Issue: %s", <<all_issues[k]>>)]
       ELSE log' = Append(log, LogRecord("INFO", "Fuzzing completed with no findings.", <<>>))
    /\ exit_status' = 0
    /\ pc' = "done"
    /\ UNCHANGED <<caller, fz, iterations, i, issues, trial, inputs, temp_dir, dirs, disk,
                   all_issues, campaigns, seed, rng, behaviour, run, prev>>

(***************************************************************************)
(* The fuzz_* functions: entry, one loop body per action, return.          *)
(***************************************************************************)
fuzz_enter ==
    /\ pc = "call"
    /\ Name # "dumpContentIntoFile"
    /\ issues' = <<>>
    /\ i' = 0
    /\ trial' = NoTrial
    /\ inputs' = <<>>
    /\ pc' = "loop"
    /\ UNCHANGED <<caller, fz, iterations, temp_dir, dirs, disk, all_issues, log,
                   campaigns, exit_status, seed, rng, behaviour, run, prev>>

\* fuzz_dump_content: `issues = []`, then the with statement creates the directory
tmpdir_create ==
    /\ pc = "call"
    /\ Name = "dumpContentIntoFile"
    /\ \E d \in TempNames \ dirs :
          /\ temp_dir' = d
          /\ dirs' = dirs \cup {d}
    /\ issues' = <<>>
    /\ i' = 0
    /\ trial' = NoTrial
    /\ inputs' = <<>>
    /\ pc' = "loop"
    /\ UNCHANGED <<caller, fz, iterations, disk, all_issues, log,
                   campaigns, exit_status, seed, rng, behaviour, run, prev>>

\* ... or fails to (no usable temporary location): OSError leaves the function
tmpdir_fail ==
    /\ pc = "call"
    /\ Name = "dumpContentIntoFile"
    /\ issues' = <<>>
    /\ i' = 0
    /\ trial' = NoTrial
    /\ inputs' = <<>>
    /\ pc' = "raised"
    /\ exit_status' = IF caller = "main" THEN 1 ELSE exit_status
    /\ UNCHANGED <<caller, fz, iterations, temp_dir, dirs, disk, all_issues, log,
                   campaigns, seed, rng, behaviour, run, prev>>

InLoop(name) == pc = "loop" /\ Name = name /\ i < iterations

fuzz_make_chunks(mode) ==
    /\ InLoop("makeChunks")
    /\ LET g   == gen_chunk_input(rng)
           out == makeChunks(mode, g.data, g.size)
       IN  /\ issues' = IF out.kind = "raise"
                        THEN make_chunks_except(issues, g.data, g.size, out.exc)
                        ELSE make_chunks_check(issues, g.data, g.size, out.value)
           /\ trial' = [fn |-> Name, data |-> g.data, size |-> g.size, out |-> out,
                        n0 |-> Len(issues)]
           /\ inputs' = Append(inputs, [data |-> g.data, size |-> g.size])
           /\ rng' = g.rng
    /\ i' = i + 1
    /\ UNCHANGED <<caller, pc, fz, iterations, temp_dir, dirs, disk, all_issues, log,
                   campaigns, exit_status, seed, behaviour, run, prev>>

fuzz_days_between(mode) ==
    /\ InLoop("days_between")
    /\ LET g   == gen_date_pair(rng)
           out == days_between(mode, g.start_date, g.end_date)
       IN  /\ issues' = IF out.kind = "raise"
                        THEN days_between_except(issues, g.start_date, g.end_date, out.exc)
                        ELSE days_between_check(issues, g.start_date, g.end_date, out.value)
           /\ trial' = [fn |-> Name, start_date |-> g.start_date, end_date |-> g.end_date,
                        out |-> out, n0 |-> Len(issues)]
           /\ inputs' = Append(inputs, [start_date |-> g.start_date, end_date |-> g.end_date])
           /\ rng' = g.rng
    /\ i' = i + 1
    /\ UNCHANGED <<caller, pc, fz, iterations, temp_dir, dirs, disk, all_issues, log,
                   campaigns, exit_status, seed, behaviour, run, prev>>

fuzz_dump_content(mode) ==
    /\ InLoop("dumpContentIntoFile")
    /\ LET g   == gen_text_payload(rng, temp_dir)
           out == dumpContentIntoFile(mode, g.content, path_str(g.file_path), disk)
       IN  /\ issues' = IF out.kind = "raise"
                        THEN dump_content_except(issues, g.content, g.file_path, out.exc)
                        ELSE dump_content_check(issues, g.content, g.file_path, out.value, out.disk)
           /\ disk' = out.disk
           /\ trial' = [fn |-> Name, content |-> g.content, file_path |-> g.file_path,
                        out |-> out, n0 |-> Len(issues)]
           /\ inputs' = Append(inputs, [content |-> g.content, file_path |-> g.file_path])
           /\ rng' = g.rng
    /\ i' = i + 1
    /\ UNCHANGED <<caller, pc, fz, iterations, temp_dir, dirs, all_issues, log,
                   campaigns, exit_status, seed, behaviour, run, prev>>

\* fuzz_average and fuzz_median differ in the target's name only
fuzz_statistic(name, mode) ==
    /\ InLoop(name)
    /\ LET g   == generate_numeric_list(rng)
           out == statistic(mode, g.payload)
       IN  /\ issues' = IF out.kind = "raise"
                        THEN stat_except(issues, name, g.payload, out.exc)
                        ELSE nan_check(issues, name, g.payload, out.value)
           /\ trial' = [fn |-> Name, payload |-> g.payload, out |-> out, n0 |-> Len(issues)]
           /\ inputs' = Append(inputs, [payload |-> g.payload])
           /\ rng' = g.rng
    /\ i' = i + 1
    /\ UNCHANGED <<caller, pc, fz, iterations, temp_dir, dirs, disk, all_issues, log,
                   campaigns, exit_status, seed, behaviour, run, prev>>

fuzz_average(mode) == fuzz_statistic("Average", mode)

fuzz_median(mode) == fuzz_statistic("Median", mode)

\* the loop is exhausted: leave the with block (dump campaign) and return issues
fuzz_return ==
    /\ pc = "loop"
    /\ i = iterations
    /\ LET fs == IF Name = "dumpContentIntoFile"
                 THEN cleanup([dirs |-> dirs, disk |-> disk], temp_dir)
                 ELSE [dirs |-> dirs, disk |-> disk]
       IN  dirs' = fs.dirs /\ disk' = fs.disk
    /\ campaigns' = Append(campaigns, [target |-> Name, findings |-> issues])
    /\ pc' = "returned"
    /\ UNCHANGED <<caller, fz, iterations, i, issues, trial, inputs, temp_dir, all_issues, log,
                   exit_status, seed, rng, behaviour, run, prev>>

\* the same script started a second time, FUZZ_SEED and the targets unchanged
rerun ==
    /\ caller = "main"
    /\ pc = "done"
    /\ run = 1
    /\ run' = 2
    /\ prev' = all_issues
    /\ pc' = "main_loop"
    /\ fz' = 0
    /\ iterations' = 0
    /\ i' = 0
    /\ issues' = <<>>
    /\ trial' = NoTrial
    /\ inputs' = <<>>
    /\ temp_dir' = ""
    /\ all_issues' = <<>>
    /\ log' = <<>>
    /\ campaigns' = <<>>
    /\ exit_status' = -1
    /\ rng' = random_seed(seed)
    /\ UNCHANGED <<caller, dirs, disk, seed, behaviour>>

Campaign ==
    \/ fuzz_enter
    \/ tmpdir_create
    \/ tmpdir_fail
    \/ fuzz_return

\* a fuzz_* function called on its own; the targets may behave differently at every call
Next ==
    \/ Campaign
    \/ \E mode \in ChunkModes : fuzz_make_chunks(mode)
    \/ \E mode \in DaysModes : fuzz_days_between(mode)
    \/ \E mode \in DumpModes : fuzz_dump_content(mode)
    \/ \E mode \in StatModes : fuzz_average(mode)
    \/ \E mode \in StatModes : fuzz_median(mode)

Spec == Init /\ [][Next]_vars

\* main() with targets that are deterministic functions of their input
NextMain ==
    \/ main_start
    \/ Campaign
    \/ fuzz_make_chunks(behaviour["makeChunks"])
    \/ fuzz_days_between(behaviour["days_between"])
    \/ fuzz_dump_content(behaviour["dumpContentIntoFile"])
    \/ fuzz_average(behaviour["Average"])
    \/ fuzz_median(behaviour["Median"])
    \/ main_collect
    \/ main_summary

SpecMain == InitMain /\ [][NextMain]_vars

\* two executions, one after the other
NextRepro == NextMain \/ rerun

SpecRepro == InitMain /\ [][NextRepro]_vars

(***************************************************************************)
(* Properties.                                                             *)
(***************************************************************************)
Ran == trial.fn # "none"
Faulted == Ran /\ trial.out.kind = "raise"
Returned == Ran /\ trial.out.kind = "return"
Last == issues[Len(issues)]
Added == Len(issues) - trial.n0

\* the dict `payload` has x among its values
Holds(payload, x) == \E k \in DOMAIN payload : PyEq(payload[k], x)

\* C1: in every campaign, a trial whose target call raises appends exactly one
\* Finding, which has an 'error' field (so no oracle Finding is appended for the
\* trial), and the loop goes on: the campaign returns only after all its iterations.
C1_FaultRecordedOnce ==
    /\ Faulted => /\ Added = 1
                  /\ "error" \in DOMAIN Last
                  /\ Last.function = trial.fn
                  /\ pc \in {"loop", "returned"}
    /\ pc = "returned" => i = iterations /\ Len(inputs) = iterations

C1_Witness ==
    /\ Faulted
    /\ trial.n0 >= 1
    /\ "error" \in DOMAIN issues[1]
    /\ pc = "returned"
    /\ iterations >= 2

\* C3: the dump campaign's temporary directory exists while the loop runs and,
\* once the campaign has returned, neither it nor any file under it exists.
C3_TempDirRemoved ==
    Name = "dumpContentIntoFile" =>
        /\ pc = "loop" => temp_dir \in dirs
        /\ pc = "returned" => /\ temp_dir \notin dirs
                              /\ \A ps \in DOMAIN disk : ~Under(ps, temp_dir)
        /\ pc = "raised" => dirs = {} /\ DOMAIN disk = {}

C3_Witness ==
    /\ Name = "dumpContentIntoFile"
    /\ pc = "returned"
    /\ Faulted
    /\ \E ps \in DOMAIN trial.out.disk : Under(ps, temp_dir)

\* C4: a chunking trial whose target returns normally records a Finding iff the
\* chunk list is non-empty (size <= 0), resp. iff the chunks concatenated differ
\* from the input (size > 0).
C4_ChunkOracle ==
    (Returned /\ trial.fn = "makeChunks") =>
        /\ Added \in {0, 1}
        /\ trial.size <= 0 => (Added = 1 <=> Len(trial.out.value) > 0)
        /\ trial.size > 0 => (Added = 1 <=> flatten(trial.out.value) # trial.data)
        /\ Added = 1 => "error" \notin DOMAIN Last

C4_Witness ==
    /\ Returned /\ trial.fn = "makeChunks"
    /\ trial.size > 0
    /\ flatten(trial.out.value) # trial.data
    /\ Added = 1
    /\ trial.n0 = 1
    /\ inputs[1].size >= Len(inputs[1].data)
    /\ inputs[1].size > 0

\* C5: a date-difference trial whose target returns a negative day count records
\* exactly one Finding 'Negative delta returned' holding both ISO timestamps and
\* the result; a non-negative result records none.
C5_NegativeDelta ==
    (Returned /\ trial.fn = "days_between") =>
        IF trial.out.value < 0
        THEN /\ Added = 1
             /\ Last = [function |-> "days_between", detail |-> "Negative delta returned",
                        payload |-> [start  |-> PyStr(isoformat(trial.start_date)),
                                     end    |-> PyStr(isoformat(trial.end_date)),
                                     result |-> PyInt(trial.out.value)]]
             /\ Len(Last.payload.start.v) = 19
        ELSE Added = 0

C5_Witness ==
    /\ Returned /\ trial.fn = "days_between"
    /\ trial.out.value < 0
    /\ toordinal(trial.end_date) < toordinal(trial.start_date)
    /\ trial.end_date.month # trial.start_date.month
    /\ Added = 1
    /\ trial.n0 = 0
    /\ Len(inputs) = 2

\* C6: an Average or Median trial whose target returns NaN for a non-empty payload
\* records exactly one Finding; a non-NaN result, or NaN for the empty payload,
\* records none.
C6_NaNOracle ==
    (Returned /\ trial.fn \in {"Average", "Median"}) =>
        IF IsFloatNaN(trial.out.value) /\ Len(trial.payload) > 0
        THEN /\ Added = 1
             /\ Last.function = trial.fn
             /\ "error" \notin DOMAIN Last
        ELSE Added = 0

C6_Witness ==
    /\ Returned /\ trial.fn = "Median"
    /\ IsFloatNaN(trial.out.value)
    /\ Len(trial.payload) > 0
    /\ Added = 1
    /\ trial.n0 = 0
    /\ Len(inputs) = 2
    /\ inputs[1].payload = <<>>

\* C7 as stated: the Finding of a faulted trial carries the generated input itself:
\* the input sequence and the chunk size, the text and the path, both timestamps,
\* or the payload sequence.
C7_FaultCarriesInput ==
    Faulted =>
        CASE trial.fn = "makeChunks" ->
                 /\ Holds(Last.payload, PyList(trial.data))
                 /\ Holds(Last.payload, PyInt(trial.size))
          [] trial.fn = "dumpContentIntoFile" ->
                 /\ Holds(Last.payload, PyText(trial.content))
                 /\ Holds(Last.payload, PyStr(path_str(trial.file_path)))
          [] trial.fn = "days_between" ->
                 /\ Holds(Last.payload, PyStr(isoformat(trial.start_date)))
                 /\ Holds(Last.payload, PyStr(isoformat(trial.end_date)))
          [] OTHER -> PyEq(Last.payload, PyList(trial.payload))

\* C7 amended: the Finding of a faulted trial carries the payload sequence
\* (Average, Median), both ISO timestamps (days_between), the chunk size and the
\* length of the input sequence (chunking), the path and the length of the text
\* (content dump).
C7_FaultDescribesInput ==
    Faulted =>
        CASE trial.fn = "makeChunks" ->
                 Last.payload = [size |-> PyInt(trial.size), len |-> PyInt(Len(trial.data))]
          [] trial.fn = "dumpContentIntoFile" ->
                 Last.payload = [path |-> PyStr(temp_dir \o "/" \o trial.file_path.name),
                                 len  |-> PyInt(Len(trial.content))]
          [] trial.fn = "days_between" ->
                 Last.payload = [start |-> PyStr(isoformat(trial.start_date)),
                                 end   |-> PyStr(isoformat(trial.end_date))]
          [] OTHER -> Last.payload = PyList(trial.payload)

C7_Witness ==
    /\ Faulted
    /\ trial.fn = "dumpContentIntoFile"
    /\ Len(trial.content) = MaxContentLen
    /\ trial.n0 = 1

\* C9: within one content-dump campaign no two trials get the same destination path.
C9_UniquePaths ==
    Name = "dumpContentIntoFile" =>
        \A a, b \in 1..Len(inputs) : a # b => inputs[a].file_path # inputs[b].file_path

Targets(cs) == [k \in 1..Len(cs) |-> cs[k].target]
Findings(cs) == [k \in 1..Len(cs) |-> cs[k].findings]

\* C2: main() never aborts: it runs all five campaigns in the declared order and
\* returns exit status 0, whatever fault occurs.
C2_RunNeverAborts ==
    /\ pc # "raised"
    /\ exit_status \in {-1, 0}
    /\ pc = "done" => Targets(campaigns) = fuzzers

\* C8: once main() has run all campaigns, all_issues is the campaigns' lists one
\* after the other in the declared order (every Finding once, nothing else, each
\* in the list of its own target), the total reported is the sum of the
\* campaigns' counts, and every Finding is logged after it, in order.
C8_RunSummary ==
    pc = "done" =>
        LET n == Len(all_issues)
            base == Len(log) - n
        IN  /\ Targets(campaigns) = fuzzers
            /\ \A k \in 1..Len(campaigns) : \A j \in 1..Len(campaigns[k].findings) :
                   campaigns[k].findings[j].function = fuzzers[k]
            /\ all_issues = flatten(Findings(campaigns))
            /\ n > 0 =>
                  /\ base >= 1
                  /\ log[base].msg = "Fuzzing completed with %s total findings."
                  /\ log[base].args = <<Len(campaigns[1].findings) + Len(campaigns[2].findings)
                                        + Len(campaigns[3].findings) + Len(campaigns[4].findings)
                                        + Len(campaigns[5].findings)>>
                  /\ \A k \in 1..n : /\ log[base + k].msg = "Issue: %s"
                                     /\ log[base + k].args = <<all_issues[k]>>
            /\ n = 0 => log[Len(log)].msg = "Fuzzing completed with no findings."

C8_Witness ==
    /\ pc = "done"
    /\ Len(campaigns[1].findings) = 2
    /\ Len(campaigns[2].findings) = 0
    /\ Len(campaigns[3].findings) >= 1
    /\ Len(campaigns[5].findings) >= 1
    /\ "error" \in DOMAIN all_issues[1]
    /\ "error" \notin DOMAIN all_issues[Len(all_issues)]

\* C10: a second execution with the same seed and the same deterministic targets
\* ends with the same sequence of Findings as the first.
C10_SameFindings ==
    (run = 2 /\ pc = "done") => all_issues = prev

====
